---- MODULE Spec2Model ----
(***************************************************************************)
(* Okta authentication / RBAC gate of the FastMCP servers.                 *)
(*                                                                         *)
(*   src/okta_auth.py        token cache, validate_okta_token, role and    *)
(*                           scope checks, OktaAuthMiddleware              *)
(*   src/combined_server.py  require_role (server variant), the canAccess  *)
(*                           assignments of the tools                      *)
(*                                                                         *)
(* Strings are sequences of symbols, so that prefix tests (startswith),    *)
(* truncation (token[:32]) and replace() are computed, not assumed.        *)
(***************************************************************************)
EXTENDS Integers, Sequences, FiniteSets, TLC

VARIABLES
    okta_config,          \* [issuer, audience] read from the environment
    JWT_VERIFIER_AVAILABLE, \* combined_server: the verifier import succeeded
    jwt_verifier,         \* combined_server: "None" or "verifier"
    public_paths,         \* OktaAuthMiddleware.public_paths
    now,                  \* the clock (time.time(), TTLCache's timer)
    token_cache,          \* TTLCache: cache key -> [value, expires]
    last,                 \* the last call made and what it returned
    callers,              \* per coroutine: where it is inside validate_okta_token
    role_definitions,     \* okta_auth.ROLE_DEFINITIONS as the process holds it
    snowflake             \* [config, oauth_token (the thread-local slot), tokens_seen]

vars == <<okta_config, JWT_VERIFIER_AVAILABLE, jwt_verifier, public_paths,
          now, token_cache, last, callers, role_definitions,
                          snowflake>>

-----------------------------------------------------------------------------
(* Bounds of the model *)

MaxTicks == 2
TickStep == 1800
MaxGroups == 2
MaxAllowed == 2
MaxResults == 3

\* the largest limit sent to the NPPES API
UpstreamLimitCap == 200

-----------------------------------------------------------------------------
(* Values *)

NoneVal == "None"
EmptyStr == ""
Iss == "https://idp.example/oauth2/default"
Aud == "api://mcp"
OtherIss == "https://evil.example"
OtherAud == "api://other"

Truthy(s) == s \notin {NoneVal, EmptyStr}

Range(s) == {s[i] : i \in 1..Len(s)}

Max(a, b) == IF a >= b THEN a ELSE b
Min(a, b) == IF a <= b THEN a ELSE b

\* dict.get(key, default)
Get(d, k, default) == IF k \in DOMAIN d THEN d[k] ELSE default

\* str.startswith
StartsWith(s, p) == Len(p) <= Len(s) /\ SubSeq(s, 1, Len(p)) = p

\* s[:n]
Take(s, n) == SubSeq(s, 1, Min(n, Len(s)))

-----------------------------------------------------------------------------
(* OktaConfig *)

jwks_uri == IF Truthy(okta_config.issuer) THEN <<okta_config.issuer, "/v1/keys">> ELSE NoneVal

\* is_configured that asks for the issuer alone
is_configured_issuer_only == Truthy(okta_config.issuer) /\ jwks_uri # NoneVal

\* is_configured with "or" for "and"
is_configured_either == Truthy(okta_config.issuer) \/ Truthy(okta_config.audience)

is_configured ==
    Truthy(okta_config.issuer) /\ Truthy(okta_config.audience) /\ jwks_uri # NoneVal

-----------------------------------------------------------------------------
(* Tokens.  A raw token is header . payload . signature.  The header is    *)
(* FingerprintLen symbols naming the signing key; the payload symbol names *)
(* the claims it encodes; the signature symbol says whether the signature  *)
(* verifies under the key of the header.                                   *)

FingerprintLen == 32
CacheTTL == 3600
CacheMaxSize == 1000

Header(k) == [i \in 1..FingerprintLen |-> k]

KnownKids == {"a", "b"}

BaseClaims == [sub |-> "u1", iss |-> Iss, aud |-> Aud, exp |-> 9000, iat |-> 0,
               groups |-> <<"mcp_viewer">>]

Payloads ==
       "viewer"   :> BaseClaims
    @@ "short"    :> [BaseClaims EXCEPT !.exp = 600]
    @@ "analyst"  :> [sub |-> "u2", iss |-> Iss, aud |-> Aud, exp |-> 9000, iat |-> 0,
                      groups |-> <<"mcp_analyst">>, email |-> "u2@example.org",
                      scp |-> <<"npi:read">>]
    @@ "admin"    :> [BaseClaims EXCEPT !.sub = "u3", !.groups = <<"mcp_admin">>]
    @@ "nogroups" :> [sub |-> "u4", iss |-> Iss, aud |-> Aud, exp |-> 9000, iat |-> 0]
    @@ "expired"  :> [BaseClaims EXCEPT !.exp = -1]
    @@ "wrongaud" :> [BaseClaims EXCEPT !.aud = OtherAud]
    @@ "wrongiss" :> [BaseClaims EXCEPT !.iss = OtherIss]
    @@ "noexp"    :> [sub |-> "u1", iss |-> Iss, aud |-> Aud, iat |-> 0,
                      groups |-> <<"mcp_viewer">>]

MakeToken(k, p, s) == Header(k) \o <<p, s>>

WellFormed(tok) == /\ Len(tok) = FingerprintLen + 2
                   /\ tok[FingerprintLen + 1] \in DOMAIN Payloads
                   /\ tok[FingerprintLen + 2] \in {"good", "bad"}

KidOf(tok) == tok[1]
PayloadOf(tok) == Payloads[tok[FingerprintLen + 1]]
SigOk(tok) == tok[FingerprintLen + 2] = "good"

Tokens ==
    {MakeToken("a", p, "good") : p \in {"viewer", "short", "analyst", "expired",
                                        "wrongaud", "wrongiss", "noexp"}}
    \cup {MakeToken("a", p, "bad") : p \in {"viewer", "expired"}}
    \cup {MakeToken("b", "analyst", "good"), MakeToken("z", "viewer", "good"),
          <<"x", "y">>}

-----------------------------------------------------------------------------
(* Results *)

Ok(c) == [ok |-> TRUE, claims |-> c]
Err(e) == [ok |-> FALSE, err |-> e]

-----------------------------------------------------------------------------
(* jwt.decode with the options of validate_okta_token, after               *)
(* PyJWKClient.get_signing_key_from_jwt.  jwks_up: the key endpoint        *)
(* answers.                                                                *)

RequiredClaims == {"exp", "iat", "sub", "aud", "iss"}

\* a decoding with no except clause for InvalidIssuerError
jwt_decode_issuer_uncaught(access_token, jwks_up) ==
    IF ~WellFormed(access_token) THEN Err("generic")
    ELSE IF ~jwks_up THEN Err("generic")
    ELSE IF KidOf(access_token) \notin KnownKids THEN Err("generic")
    ELSE IF ~SigOk(access_token) THEN Err("signature")
    ELSE LET claims == PayloadOf(access_token) IN
         IF ~(RequiredClaims \subseteq DOMAIN claims) THEN Err("generic")
         ELSE IF claims.iat > now THEN Err("generic")
         ELSE IF claims.exp <= now THEN Err("expired")
         ELSE IF claims.iss # okta_config.issuer THEN Err("generic")
         ELSE IF claims.aud # okta_config.audience THEN Err("audience")
         ELSE Ok(claims)

jwt_decode(access_token, jwks_up) ==
    IF ~WellFormed(access_token) THEN Err("generic")          \* DecodeError
    ELSE IF ~jwks_up THEN Err("generic")                      \* PyJWKClientConnectionError
    ELSE IF KidOf(access_token) \notin KnownKids THEN Err("generic")  \* PyJWKClientError
    ELSE IF ~SigOk(access_token) THEN Err("signature")        \* InvalidSignatureError
    ELSE LET claims == PayloadOf(access_token) IN
         IF ~(RequiredClaims \subseteq DOMAIN claims) THEN Err("generic")  \* MissingRequiredClaimError
         ELSE IF claims.iat > now THEN Err("generic")         \* ImmatureSignatureError
         ELSE IF claims.exp <= now THEN Err("expired")        \* ExpiredSignatureError
         ELSE IF claims.iss # okta_config.issuer THEN Err("issuer")    \* InvalidIssuerError
         ELSE IF claims.aud # okta_config.audience THEN Err("audience") \* InvalidAudienceError
         ELSE Ok(claims)

-----------------------------------------------------------------------------
(* token_cache = TTLCache(maxsize=1000, ttl=3600) *)

\* a lookup that finds nothing
CacheContains_never(cache, key) == FALSE

\* key in token_cache
\* a lookup that takes the expired entries and leaves the live ones
CacheContains_expired(cache, key) == key \in DOMAIN cache /\ ~(now < cache[key].expires)

CacheContains(cache, key) == key \in DOMAIN cache /\ now < cache[key].expires

\* TTLCache.expire()
CacheExpire(cache) == [k \in {j \in DOMAIN cache : now < cache[j].expires} |-> cache[k]]

\* TTLCache.popitem(): the oldest entry goes
CachePop(cache) ==
    LET old == CHOOSE k \in DOMAIN cache :
                   \A j \in DOMAIN cache : cache[k].expires <= cache[j].expires
    IN [k \in DOMAIN cache \ {old} |-> cache[k]]

\* a store that gives the entry no time to live
CacheSet_no_ttl(cache, key, value) ==
    LET live == CacheExpire(cache)
    IN [k \in DOMAIN live \cup {key} |->
           IF k = key THEN [value |-> value, expires |-> now] ELSE live[k]]

\* token_cache[key] = value
CacheSet(cache, key, value) ==
    LET live == CacheExpire(cache)
        room == IF key \notin DOMAIN live /\ Cardinality(DOMAIN live) >= CacheMaxSize
                THEN CachePop(live) ELSE live
    IN [k \in DOMAIN room \cup {key} |->
           IF k = key THEN [value |-> value, expires |-> now + CacheTTL] ELSE room[k]]

-----------------------------------------------------------------------------
(* validate_okta_token: the result, the cache afterwards, and whether the  *)
(* JWKS endpoint was asked.                                                *)

\* a store that does not look at the outcome of the decoding
cache_always(cache_key, r) ==
    CacheSet(token_cache, cache_key, IF r.ok THEN r.claims ELSE <<>>)

\* "Cache validated claims": ttl = max(exp - now, 0); stored only if ttl > 0
cache_validated(cache_key, r) ==
    IF ~r.ok THEN token_cache
    ELSE LET ttl == Max(r.claims.exp - now, 0) IN
         IF ttl > 0 THEN CacheSet(token_cache, cache_key, r.claims) ELSE token_cache

\* the log line of each except clause
failure_log(err) ==
    IF err = "expired" THEN "security.warning"
    ELSE IF err \in {"audience", "issuer", "signature"} THEN "security.error"
    ELSE "security.exception"

validate_okta_token(access_token, jwks_up) ==
    IF ~is_configured
    THEN [result |-> Err("not_configured"), cache |-> token_cache, fetched |-> FALSE,
          logs |-> <<>>]
    ELSE LET cache_key == Take(access_token, FingerprintLen) IN
         IF CacheContains(token_cache, cache_key)
         THEN [result |-> Ok(token_cache[cache_key].value), cache |-> token_cache,
               fetched |-> FALSE, logs |-> <<"logger.debug">>]
         ELSE LET r == jwt_decode(access_token, jwks_up) IN
              IF r.ok
              THEN [result |-> r, cache |-> cache_validated(cache_key, r),
                    fetched |-> TRUE, logs |-> <<"security.info">>]
              ELSE [result |-> r, cache |-> token_cache,
                    fetched |-> WellFormed(access_token),
                    logs |-> <<failure_log(r.err)>>]

-----------------------------------------------------------------------------------------------------------------------------------------------------
(* RBAC configuration *)

\* okta_auth.ROLE_DEFINITIONS[role]["allowed_tools"]
ROLE_DEFINITIONS ==
       "mcp_viewer"    :> <<"echo_tool", "search_providers", "search_organizations",
                            "lookup_npi">>
    @@ "mcp_analyst"   :> <<"echo_tool", "search_providers", "search_organizations",
                            "lookup_npi", "advanced_search">>
    @@ "mcp_clinician" :> <<"echo_tool", "search_providers", "search_organizations",
                            "lookup_npi", "advanced_search">>
    @@ "mcp_admin"     :> <<"*">>

\* the loop of get_user_permissions over groups[i..], allowed_tools so far in acc
RECURSIVE get_user_permissions_loop(_, _, _)
get_user_permissions_loop(groups, i, acc) ==
    IF i > Len(groups) THEN acc
    ELSE IF groups[i] \in DOMAIN ROLE_DEFINITIONS
         THEN LET tools == ROLE_DEFINITIONS[groups[i]] IN
              IF "*" \in Range(tools) THEN {"*"}
              ELSE get_user_permissions_loop(groups, i + 1, acc \cup Range(tools))
         ELSE get_user_permissions_loop(groups, i + 1, acc)

get_user_permissions(groups) == get_user_permissions_loop(groups, 1, {})

\* any_role_in with all() for any()
RECURSIVE all_roles_in(_, _, _)
all_roles_in(allowed_roles, user_groups, i) ==
    IF i > Len(allowed_roles) THEN TRUE
    ELSE IF allowed_roles[i] \notin Range(user_groups) THEN FALSE
    ELSE all_roles_in(allowed_roles, user_groups, i + 1)

\* any(role in user_groups for role in allowed_roles[i..])
RECURSIVE any_role_in(_, _, _)
any_role_in(allowed_roles, user_groups, i) ==
    IF i > Len(allowed_roles) THEN FALSE
    ELSE IF allowed_roles[i] \in Range(user_groups) THEN TRUE
    ELSE any_role_in(allowed_roles, user_groups, i + 1)

\* all(scope in token_scopes for scope in required_scopes[i..])
RECURSIVE all_scopes_in(_, _, _)
all_scopes_in(required_scopes, token_scopes, i) ==
    IF i > Len(required_scopes) THEN TRUE
    ELSE IF required_scopes[i] \notin Range(token_scopes) THEN FALSE
    ELSE all_scopes_in(required_scopes, token_scopes, i + 1)

\* require_role without the administrator shortcut
require_role_no_admin(allowed_roles, auth_context) ==
    IF ~is_configured THEN TRUE
    ELSE any_role_in(allowed_roles, Get(auth_context, "groups", <<>>), 1)

\* okta_auth.require_role(*allowed_roles)(auth_context)
require_role(allowed_roles, auth_context) ==
    IF ~is_configured THEN TRUE
    ELSE LET user_groups == Get(auth_context, "groups", <<>>) IN
         IF "mcp_admin" \in Range(user_groups) THEN TRUE
         ELSE any_role_in(allowed_roles, user_groups, 1)

\* okta_auth.require_scope(*required_scopes)(auth_context)
require_scope(required_scopes, auth_context) ==
    IF ~is_configured THEN TRUE
    ELSE all_scopes_in(required_scopes, Get(auth_context, "scp", <<>>), 1)

\* okta_auth.can_access_tool(tool_name, groups)
can_access_tool(tool_name, groups) ==
    IF ~is_configured THEN TRUE
    ELSE LET permissions == get_user_permissions(groups) IN
         IF "*" \in permissions THEN TRUE
         ELSE tool_name \in permissions

\* combined_server.OktaConfig.is_configured
cs_is_configured == is_configured /\ JWT_VERIFIER_AVAILABLE

\* combined_server.require_role(*allowed_roles)(auth_context)
cs_require_role(allowed_roles, auth_context) ==
    IF ~cs_is_configured \/ jwt_verifier = NoneVal THEN TRUE
    ELSE LET user_groups == Get(auth_context, "groups", <<>>) IN
         IF "mcp_admin" \in Range(user_groups) THEN TRUE
         ELSE any_role_in(allowed_roles, user_groups, 1)

\* a registry whose analyst role lacks the dbt Cloud and Snowflake tools
cs_ROLE_DEFINITIONS_short ==
       "mcp_viewer"    :> <<"echo_tool", "search_providers", "search_organizations",
                            "lookup_npi">>
    @@ "mcp_analyst"   :> <<"echo_tool", "search_providers", "search_organizations",
                            "lookup_npi", "advanced_search">>
    @@ "mcp_clinician" :> <<"echo_tool", "search_providers", "search_organizations",
                            "lookup_npi", "advanced_search">>
    @@ "mcp_admin"     :> <<"*">>

\* combined_server.ROLE_DEFINITIONS: role -> allowed_tools
cs_ROLE_DEFINITIONS ==
       "mcp_viewer"    :> <<"echo_tool", "search_providers", "search_organizations",
                            "lookup_npi">>
    @@ "mcp_analyst"   :> <<"echo_tool", "search_providers", "search_organizations",
                            "lookup_npi", "advanced_search",
                            "list_dbt_projects", "list_dbt_jobs", "trigger_dbt_job",
                            "get_dbt_run_status", "query_dbt_models",
                            "execute_snowflake_query", "list_snowflake_databases",
                            "list_snowflake_schemas", "list_snowflake_tables",
                            "describe_snowflake_table", "list_snowflake_warehouses">>
    @@ "mcp_clinician" :> <<"echo_tool", "search_providers", "search_organizations",
                            "lookup_npi", "advanced_search">>
    @@ "mcp_admin"     :> <<"*">>

\* the loop of combined_server.get_user_permissions over groups[i..]
RECURSIVE cs_get_user_permissions_loop(_, _, _)
cs_get_user_permissions_loop(groups, i, acc) ==
    IF i > Len(groups) THEN acc
    ELSE IF groups[i] \in DOMAIN cs_ROLE_DEFINITIONS
         THEN LET tools == cs_ROLE_DEFINITIONS[groups[i]] IN
              IF "*" \in Range(tools) THEN {"*"}
              ELSE cs_get_user_permissions_loop(groups, i + 1, acc \cup Range(tools))
         ELSE cs_get_user_permissions_loop(groups, i + 1, acc)

\* combined_server.get_user_permissions
cs_get_user_permissions(groups) == cs_get_user_permissions_loop(groups, 1, {})

\* combined_server.OKTA_ENABLED
OKTA_ENABLED == jwt_verifier # NoneVal

ViewerUp == <<"mcp_viewer", "mcp_analyst", "mcp_clinician", "mcp_admin">>
AnalystClinicianUp == <<"mcp_analyst", "mcp_clinician", "mcp_admin">>
AnalystUp == <<"mcp_analyst", "mcp_admin">>

\* combined_server: tool -> the roles given to require_role for its canAccess
canAccess ==
    IF ~OKTA_ENABLED THEN <<>>
    ELSE   "lookup_npi" :> ViewerUp
        @@ "search_providers" :> ViewerUp
        @@ "search_organizations" :> ViewerUp
        @@ "advanced_search" :> AnalystClinicianUp
        @@ "list_dbt_projects" :> AnalystUp
        @@ "list_dbt_jobs" :> AnalystUp
        @@ "trigger_dbt_job" :> AnalystUp
        @@ "get_dbt_run_status" :> AnalystUp
        @@ "query_dbt_models" :> AnalystUp
        @@ "execute_snowflake_query" :> AnalystUp
        @@ "list_snowflake_databases" :> AnalystUp
        @@ "list_snowflake_schemas" :> AnalystUp
        @@ "list_snowflake_tables" :> AnalystUp
        @@ "describe_snowflake_table" :> AnalystUp
        @@ "list_snowflake_warehouses" :> AnalystUp

-----------------------------------------------------------------------------
(* OktaAuthMiddleware *)

P_root == <<"/">>
P_health == <<"/", "h", "e", "a", "l", "t", "h">>
P_healthz == <<"/", "h", "e", "a", "l", "t", "h", "z">>
P_metrics == <<"/", "m", "e", "t", "r", "i", "c", "s">>
P_wellknown == <<"/", ".", "w", "e", "l", "l", "-", "k", "n", "o", "w", "n">>
P_mcp == <<"/", "m", "c", "p">>
P_star == <<"*">>

DefaultPublicPaths == <<P_root, P_health, P_metrics, P_wellknown>>

\* OktaAuthMiddleware.__init__: public_paths or the default list
OktaAuthMiddleware_init(arg) == IF arg = <<>> THEN DefaultPublicPaths ELSE arg

\* a public-path test that wants the path equal to a listed one
is_public_path_exact(path) ==
    \E i \in 1..Len(public_paths) : path = public_paths[i]

\* any(request.url.path.startswith(path) for path in self.public_paths)
is_public_path(path) ==
    \E i \in 1..Len(public_paths) : StartsWith(path, public_paths[i])

Bearer == "Bearer "

\* auth_header.replace("Bearer ", "")
strip_bearer(auth_header) == SelectSeq(auth_header, LAMBDA x : x # Bearer)

NoState == <<>>
NoResult == [ok |-> FALSE, err |-> "not_called"]

\* call_next(request): the request goes on to the handler of the tool it names
call_next(request, calls, state, v) ==
    [status |-> 200, www |-> <<>>, calls |-> calls \o <<"call_next", request.tool>>,
     state |-> state, cache |-> v.cache, result |-> v.result, fetched |-> v.fetched,
     logs |-> v.logs]

\* what dispatch has of the validator when it did not call it
NotValidated(logs) ==
    [result |-> NoResult, cache |-> token_cache, fetched |-> FALSE, logs |-> logs]

\* raise HTTPException(401, headers={"WWW-Authenticate": "Bearer"})
missing_header_response ==
    [status |-> 401, www |-> <<"Bearer">>, calls |-> <<>>, state |-> NoState,
     cache |-> token_cache, result |-> NoResult, fetched |-> FALSE, logs |-> <<>>]

\* a 401 for a rejected token that names neither the error nor its reason
invalid_token_response_bare(v) ==
    [status |-> 401, www |-> <<"Bearer">>,
     calls |-> <<"validate_okta_token">>, state |-> NoState, cache |-> v.cache,
     result |-> v.result, fetched |-> v.fetched,
     logs |-> v.logs \o <<"security.warning">>]

\* except AuthenticationError as e: log, raise HTTPException(401, invalid_token)
invalid_token_response(v) ==
    [status |-> 401, www |-> <<"Bearer", "invalid_token", v.result.err>>,
     calls |-> <<"validate_okta_token">>, state |-> NoState, cache |-> v.cache,
     result |-> v.result, fetched |-> v.fetched,
     logs |-> v.logs \o <<"security.warning">>]

\* a request.state whose scopes are read from the groups claim
authenticated_state_groups_as_scopes(claims) ==
    [user |-> claims,
     user_id |-> Get(claims, "sub", NoneVal),
     email |-> Get(claims, "email", EmptyStr),
     groups |-> Get(claims, "groups", <<>>),
     scopes |-> Get(claims, "groups", <<>>),
     permissions |-> get_user_permissions(Get(claims, "groups", <<>>)),
     authenticated |-> TRUE]

\* request.state after a successful validation
authenticated_state(claims) ==
    [user |-> claims,
     user_id |-> Get(claims, "sub", NoneVal),
     email |-> Get(claims, "email", EmptyStr),
     groups |-> Get(claims, "groups", <<>>),
     scopes |-> Get(claims, "scp", <<>>),
     permissions |-> get_user_permissions(Get(claims, "groups", <<>>)),
     authenticated |-> TRUE]

\* OktaAuthMiddleware.dispatch
dispatch(request, jwks_up) ==
    IF is_public_path(request.path)
    THEN call_next(request, <<>>, NoState, NotValidated(<<>>))
    ELSE IF ~is_configured
    THEN call_next(request, <<>>,
                   [user |-> [sub |-> "dev-user", email |-> "dev@localhost",
                              groups |-> <<"mcp_admin">>],
                    authenticated |-> FALSE],
                   NotValidated(<<"logger.debug">>))
    ELSE LET auth_header == Get(request.headers, "Authorization", <<>>) IN
         IF ~StartsWith(auth_header, <<Bearer>>)
         THEN missing_header_response
         ELSE LET token == strip_bearer(auth_header)
                  v == validate_okta_token(token, jwks_up)
              IN IF v.result.ok
                 THEN call_next(request,
                                <<"validate_okta_token", "get_user_permissions">>,
                                authenticated_state(v.result.claims),
                                [v EXCEPT !.logs = @ \o <<"logger.debug">>])
                 ELSE invalid_token_response(v)

\* get_auth_context_from_request(request), request.state given as state
get_auth_context_from_request(state) ==
    [sub |-> Get(state, "user_id", NoneVal),
     email |-> Get(state, "email", EmptyStr),
     groups |-> Get(state, "groups", <<>>),
     scp |-> Get(state, "scopes", <<>>),
     authenticated |-> Get(state, "authenticated", FALSE)]

-----
(* Actions *)

Configs == [issuer : {NoneVal, EmptyStr, Iss}, audience : {NoneVal, Aud}]

\* combined_server: snowflake_config as two flags, the thread-local token slot
\* of the event-loop thread, and the tokens connections were opened with
SnowflakeStart(config) ==
    [config |-> config, oauth_token |-> NoneVal, tokens_seen |-> {}]

\* the coroutines that may be inside validate_okta_token at once
Callers == {"c1", "c2"}

\* a caller that is not inside validate_okta_token
Idle == [pc |-> "idle"]

Init ==
    /\ okta_config \in Configs
    /\ JWT_VERIFIER_AVAILABLE = TRUE
    /\ jwt_verifier = IF is_configured THEN "verifier" ELSE NoneVal
    /\ public_paths \in {OktaAuthMiddleware_init(arg) : arg \in {<<>>, <<P_health>>}}
    /\ now = 0
    /\ token_cache = <<>>
    /\ last = [op |-> "start"]
    /\ callers = [c \in Callers |-> Idle]
    /\ role_definitions = ROLE_DEFINITIONS
    /\ snowflake = SnowflakeStart([is_configured |-> FALSE, is_oauth_mode |-> FALSE])

Tick ==
    /\ now + TickStep <= MaxTicks * TickStep
    /\ now' = now + TickStep
    /\ UNCHANGED <<okta_config, JWT_VERIFIER_AVAILABLE, jwt_verifier, public_paths,
                   token_cache, last, callers, role_definitions,
                          snowflake>>

\* the key endpoint may be down for any call; one token is enough to see it
ValidateInputs ==
    {<<tok, TRUE>> : tok \in Tokens} \cup {<<MakeToken("a", "viewer", "good"), FALSE>>}

Validate ==
    \E inp \in ValidateInputs :
        LET tok == inp[1]
            jwks_up == inp[2]
            v == validate_okta_token(tok, jwks_up) IN
        /\ token_cache' = v.cache
        /\ last' = [op |-> "validate", at |-> now, token |-> tok, jwks_up |-> jwks_up,
                    result |-> v.result, fetched |-> v.fetched, logs |-> v.logs,
                    hit |-> is_configured
                            /\ CacheContains(token_cache, Take(tok, FingerprintLen))]
        /\ UNCHANGED <<okta_config, JWT_VERIFIER_AVAILABLE, jwt_verifier, public_paths, now,
                       callers, role_definitions,
                          snowflake>>

DispatchTokens ==
    {MakeToken("a", "viewer", "good"), MakeToken("a", "analyst", "good"),
     MakeToken("a", "analyst", "bad")}

RequestHeaders ==
    {<<>>, [Authorization |-> <<"Basic ", "x">>]}
    \cup {[Authorization |-> <<Bearer>> \o tok] : tok \in DispatchTokens}

RequestPaths == {P_healthz, P_mcp, P_star}

RequestTools == {"echo_tool", "lookup_npi", "execute_snowflake_query"}

DispatchInputs ==
    {<<path, headers, tool, TRUE>> :
        path \in RequestPaths, headers \in RequestHeaders, tool \in RequestTools}
    \cup {<<P_star, [Authorization |-> <<Bearer>> \o MakeToken("a", "viewer", "good")],
            "lookup_npi", FALSE>>}

Dispatch ==
    \E inp \in DispatchInputs :
        LET request == [path |-> inp[1], headers |-> inp[2], tool |-> inp[3]]
            jwks_up == inp[4]
            r == dispatch(request, jwks_up)
        IN /\ token_cache' = r.cache
           /\ last' = [op |-> "dispatch", at |-> now, request |-> request,
                       jwks_up |-> jwks_up,
                       status |-> r.status, www |-> r.www, calls |-> r.calls,
                       state |-> r.state, result |-> r.result, fetched |-> r.fetched,
                       logs |-> r.logs]
           /\ UNCHANGED <<okta_config, JWT_VERIFIER_AVAILABLE, jwt_verifier, public_paths,
                          now, callers, role_definitions,
                          snowflake>>

Next == Tick \/ Validate \/ Dispatch

Spec == Init /\ [][Next]_vars

-----------------------------------------------------------------------------
(* validate_okta_token statement by statement, for callers that are inside *)
(* it at the same time: the cache lookup, the decoding, the store.  Each   *)
(* operation of the cache is one step.                                     *)

ConcTokens ==
    {MakeToken("a", "viewer", "good"), MakeToken("a", "short", "good"),
     MakeToken("a", "analyst", "good"), MakeToken("a", "viewer", "bad")}

InitConc ==
    /\ okta_config \in {[issuer |-> Iss, audience |-> Aud],
                        [issuer |-> NoneVal, audience |-> Aud]}
    /\ JWT_VERIFIER_AVAILABLE = TRUE
    /\ jwt_verifier = IF is_configured THEN "verifier" ELSE NoneVal
    /\ public_paths = DefaultPublicPaths
    /\ now = 0
    /\ token_cache = <<>>
    /\ last = [op |-> "start"]
    /\ callers = [c \in Callers |-> Idle]
    /\ role_definitions = ROLE_DEFINITIONS
    /\ snowflake = SnowflakeStart([is_configured |-> FALSE, is_oauth_mode |-> FALSE])

UnchangedConc == UNCHANGED <<okta_config, JWT_VERIFIER_AVAILABLE, jwt_verifier,
                             public_paths, now, last, role_definitions,
                          snowflake>>

Finish(c, result, hit) ==
    callers' = [callers EXCEPT ![c] = [pc |-> "done", token |-> @.token, hit |-> hit,
                                       result |-> result, at |-> now]]

\* the call is made
Begin(c) ==
    \E tok \in ConcTokens :
        /\ callers[c].pc = "idle"
        /\ callers' = [callers EXCEPT ![c] = [pc |-> "lookup", token |-> tok]]
        /\ UNCHANGED token_cache
        /\ UnchangedConc

\* is_configured; cache_key in token_cache; return token_cache[cache_key]
Lookup(c) ==
    LET cache_key == Take(callers[c].token, FingerprintLen) IN
    /\ callers[c].pc = "lookup"
    /\ IF ~is_configured
       THEN Finish(c, Err("not_configured"), FALSE)
       ELSE IF CacheContains(token_cache, cache_key)
       THEN Finish(c, Ok(token_cache[cache_key].value), TRUE)
       ELSE callers' = [callers EXCEPT ![c] = [pc |-> "decode", token |-> @.token]]
    /\ UNCHANGED token_cache
    /\ UnchangedConc

\* the keys are fetched and the token decoded; a failure is raised
Decode(c) ==
    LET r == jwt_decode(callers[c].token, TRUE) IN
    /\ callers[c].pc = "decode"
    /\ IF r.ok
       THEN callers' = [callers EXCEPT ![c] = [pc |-> "store", token |-> @.token,
                                               result |-> r]]
       ELSE Finish(c, r, FALSE)
    /\ UNCHANGED token_cache
    /\ UnchangedConc

\* the claims are stored and returned
Store(c) ==
    /\ callers[c].pc = "store"
    /\ token_cache' = cache_validated(Take(callers[c].token, FingerprintLen),
                                      callers[c].result)
    /\ Finish(c, callers[c].result, FALSE)
    /\ UnchangedConc

\* the caller has its answer and may call again
Return(c) ==
    /\ callers[c].pc = "done"
    /\ callers' = [callers EXCEPT ![c] = Idle]
    /\ UNCHANGED token_cache
    /\ UnchangedConc

NextConc ==
    \/ Tick
    \/ \E c \in Callers : Begin(c)
    \/ \E c \in Callers : Lookup(c)
    \/ \E c \in Callers : Decode(c)
    \/ \E c \in Callers : Store(c)
    \/ \E c \in Callers : Return(c)

SpecConc == InitConc /\ [][NextConc]_vars

-----------------------------------------------------------------------------
(* The access checks as pure functions: the configuration and one call,    *)
(* with its arguments drawn from bounded sets.                             *)

RoleNames == {"mcp_viewer", "mcp_analyst", "mcp_clinician", "mcp_admin"}
GroupNames == RoleNames \cup {"other_group"}
ScopeNames == {"npi:read", "dbt:run"}
ToolNames == {"echo_tool", "lookup_npi", "search_providers", "advanced_search",
              "execute_snowflake_query", "no_such_tool"}

SeqsUpTo(S, n) == UNION {[1..k -> S] : k \in 0..n}

GroupLists == SeqsUpTo(GroupNames, MaxGroups)
AllowedRoleTuples ==
    SeqsUpTo(RoleNames, MaxAllowed) \cup {ViewerUp, AnalystClinicianUp, AnalystUp}

AuthContexts ==
    {<<>>, [sub |-> "u1"]} \cup {[sub |-> "u1", groups |-> g] : g \in GroupLists}

ScopeContexts ==
    {<<>>} \cup {[sub |-> "u1", scp |-> sc] : sc \in SeqsUpTo(ScopeNames, MaxGroups)}

InitAccess ==
    /\ okta_config \in Configs
    /\ JWT_VERIFIER_AVAILABLE \in BOOLEAN
    /\ jwt_verifier \in IF cs_is_configured THEN {"verifier", NoneVal} ELSE {NoneVal}
    /\ public_paths = DefaultPublicPaths
    /\ now = 0
    /\ token_cache = <<>>
    /\ last = [op |-> "start"]
    /\ callers = [c \in Callers |-> Idle]
    /\ role_definitions = ROLE_DEFINITIONS
    /\ snowflake = SnowflakeStart([is_configured |-> FALSE, is_oauth_mode |-> FALSE])

Unchanged == UNCHANGED <<okta_config, JWT_VERIFIER_AVAILABLE, jwt_verifier,
                         public_paths, now, token_cache, callers, role_definitions,
                          snowflake>>

RequireRole ==
    /\ last.op = "start"
    /\ \E allowed_roles \in AllowedRoleTuples, auth_context \in AuthContexts :
           last' = [op |-> "require_role", allowed_roles |-> allowed_roles,
                    auth_context |-> auth_context,
                    result |-> require_role(allowed_roles, auth_context)]
    /\ Unchanged

RequireRoleServer ==
    /\ last.op = "start"
    /\ \E allowed_roles \in AllowedRoleTuples, auth_context \in AuthContexts :
           last' = [op |-> "cs_require_role", allowed_roles |-> allowed_roles,
                    auth_context |-> auth_context,
                    result |-> cs_require_role(allowed_roles, auth_context)]
    /\ Unchanged

RequireScope ==
    /\ last.op = "start"
    /\ \E required_scopes \in SeqsUpTo(ScopeNames, MaxAllowed),
          auth_context \in ScopeContexts :
           last' = [op |-> "require_scope", required_scopes |-> required_scopes,
                    auth_context |-> auth_context,
                    result |-> require_scope(required_scopes, auth_context)]
    /\ Unchanged

CanAccessTool ==
    /\ last.op = "start"
    /\ \E tool_name \in ToolNames, groups \in GroupLists :
           last' = [op |-> "can_access_tool", tool_name |-> tool_name,
                    groups |-> groups,
                    result |-> can_access_tool(tool_name, groups)]
    /\ Unchanged

\* both views of one call: the registry's answer for the caller's groups and
\* the answer of the check_access assigned to the tool
ToolAccess ==
    /\ last.op = "start"
    /\ \E tool \in DOMAIN canAccess, groups \in GroupLists :
           last' = [op |-> "tool_access", tool |-> tool, groups |-> groups,
                    permissions |-> cs_get_user_permissions(groups),
                    result |-> cs_require_role(canAccess[tool],
                                               [sub |-> "u1", groups |-> groups])]
    /\ Unchanged

NextAccess ==
    RequireRole \/ RequireRoleServer \/ RequireScope \/ CanAccessTool \/ ToolAccess

SpecAccess == InitAccess /\ [][NextAccess]_vars

-----------------------------------------------------------------------------
(* The registry as an object of the process: the calls that read it, and a *)
(* caller that changes the list it was handed.                             *)

\* a get_user_permissions that hands out the registry's own list for '*'
RECURSIVE returned_list_shared(_, _)
returned_list_shared(groups, i) ==
    IF i > Len(groups) THEN NoneVal
    ELSE IF groups[i] \in DOMAIN ROLE_DEFINITIONS
            /\ "*" \in Range(ROLE_DEFINITIONS[groups[i]])
         THEN groups[i]
         ELSE returned_list_shared(groups, i + 1)

\* the list object get_user_permissions returns: the role whose allowed_tools
\* list it is, or None for a new list (["*"] and list(allowed_tools) are new)
RECURSIVE returned_list(_, _)
returned_list(groups, i) ==
    IF i > Len(groups) THEN NoneVal
    ELSE IF groups[i] \in DOMAIN ROLE_DEFINITIONS
            /\ "*" \in Range(ROLE_DEFINITIONS[groups[i]])
         THEN NoneVal
         ELSE returned_list(groups, i + 1)

\* group lists with no role, with roles, and with the '*' role first and last
RegistryGroupLists ==
    {<<>>, <<"other_group">>, <<"mcp_viewer">>, <<"mcp_admin">>,
     <<"mcp_viewer", "mcp_admin">>, <<"mcp_analyst", "mcp_clinician">>}

GetUserPermissions ==
    /\ \E groups \in RegistryGroupLists :
           last' = [op |-> "get_user_permissions", groups |-> groups,
                    result |-> get_user_permissions(groups),
                    object |-> returned_list(groups, 1)]
    /\ Unchanged

\* the caller appends to the list it got from get_user_permissions
MutateReturned ==
    /\ last.op = "get_user_permissions"
    /\ last' = [op |-> "mutate_returned", groups |-> last.groups, object |-> last.object]
    /\ role_definitions' =
           IF last.object = NoneVal THEN role_definitions
           ELSE [role_definitions EXCEPT ![last.object] = Append(@, "new_tool")]
    /\ UNCHANGED <<okta_config, JWT_VERIFIER_AVAILABLE, jwt_verifier, public_paths,
                   now, token_cache, callers, snowflake>>

NextRegistry ==
    \/ GetUserPermissions
    \/ MutateReturned
    \/ CanAccessTool
    \/ Validate
    \/ Dispatch

SpecRegistry == Init /\ [][NextRegistry]_vars

-----------------------------------------------------------------------------
(* combined_server: the NPPES tools.  upstream is what the HTTP request    *)
(* meets: a failure, or a 200 answer with a JSON body.                     *)

\* results[:limit]
SliceTo(results, limit) ==
    IF limit >= 0 THEN Take(results, limit)
    ELSE Take(results, Max(Len(results) + limit, 0))

\* a request without raise_for_status: an error status is read as an answer
make_nppes_request_unchecked(params, upstream) ==
    IF upstream.kind = "ok" THEN upstream.body
    ELSE IF upstream.kind = "http_status" THEN <<>>
    ELSE IF upstream.kind = "transport" THEN [error |-> "HTTP error occurred"]
    ELSE [error |-> "An error occurred"]

\* make_nppes_request(params)
make_nppes_request(params, upstream) ==
    IF upstream.kind = "ok" THEN upstream.body
    ELSE IF upstream.kind \in {"http_status", "transport"}
    THEN [error |-> "HTTP error occurred"]
    ELSE [error |-> "An error occurred"]

\* what a tool returned: the request it made, how its text begins, and the
\* result entries it formatted
ToolOutput(params, text, entries) ==
    [requests |-> <<params>>, text |-> text, entries |-> entries]

\* the common body of the three searches, after params is built
nppes_search(params, limit, upstream) ==
    LET data == make_nppes_request(params, upstream) IN
    IF "error" \in DOMAIN data THEN ToolOutput(params, "Error: ", <<>>)
    ELSE IF Get(data, "result_count", 0) = 0 THEN ToolOutput(params, "No ", <<>>)
    ELSE ToolOutput(params, "Found ", SliceTo(Get(data, "results", <<>>), limit))

search_providers(limit, upstream) ==
    nppes_search([version |-> "2.1", enumeration_type |-> "NPI-1",
                  limit |-> Min(limit, UpstreamLimitCap)], limit, upstream)

search_organizations(limit, upstream) ==
    nppes_search([version |-> "2.1", enumeration_type |-> "NPI-2",
                  limit |-> Min(limit, UpstreamLimitCap)], limit, upstream)

advanced_search(limit, upstream) ==
    nppes_search([version |-> "2.1", limit |-> Min(limit, UpstreamLimitCap)],
                 limit, upstream)

lookup_npi(npi_number, upstream) ==
    LET params == [number |-> npi_number, version |-> "2.1"]
        data == make_nppes_request(params, upstream) IN
    IF "error" \in DOMAIN data THEN ToolOutput(params, "Error: ", <<>>)
    ELSE IF Get(data, "result_count", 0) = 0 THEN ToolOutput(params, "No ", <<>>)
    ELSE IF Get(data, "results", <<>>) = <<>> THEN ToolOutput(params, "No ", <<>>)
    ELSE ToolOutput(params, "NPI: ", <<Get(data, "results", <<>>)[1]>>)

\* DbtCloudConfig.is_configured (api_url has a default)
dbt_is_configured(dbt_config) ==
    /\ Truthy(dbt_config.account_id)
    /\ (Truthy(dbt_config.service_token) \/ dbt_config.oauth)

\* make_dbt_request(endpoint, ..., user_token): the requests made and the
\* dictionary returned
make_dbt_request(dbt_config, user_token, upstream) ==
    IF ~dbt_is_configured(dbt_config)
    THEN [requests |-> <<>>, data |-> [error |-> "dbt Cloud not configured"]]
    ELSE LET token == IF Truthy(user_token) THEN user_token
                      ELSE dbt_config.service_token IN
         IF ~Truthy(token)
         THEN [requests |-> <<>>, data |-> [error |-> "No authentication token available"]]
         ELSE [requests |-> <<[token |-> token]>>,
               data |-> IF upstream.kind = "ok" THEN upstream.body
                        ELSE IF upstream.kind \in {"http_status", "transport"}
                        THEN [error |-> "HTTP error occurred"]
                        ELSE [error |-> "An error occurred"]]

\* the dbt Cloud tools: demo text when unconfigured, else one request
dbt_tool(tool, dbt_config, upstream) ==
    IF ~dbt_is_configured(dbt_config)
    THEN [requests |-> <<>>, text |-> "Demo", entries |-> <<>>]
    ELSE LET r == make_dbt_request(dbt_config, NoneVal, upstream) IN
         IF "error" \in DOMAIN r.data
         THEN [requests |-> r.requests, text |-> "Error: ", entries |-> <<>>]
         ELSE IF Get(r.data, "data", <<>>) = <<>>
         THEN [requests |-> r.requests, text |-> "No ", entries |-> <<>>]
         ELSE [requests |-> r.requests, text |-> "Found ",
               entries |-> Get(r.data, "data", <<>>)]

DbtTools ==
    {"list_dbt_projects", "list_dbt_jobs", "trigger_dbt_job", "get_dbt_run_status",
     "query_dbt_models"}

DbtConfigs ==
    [account_id : {NoneVal, "acct"}, service_token : {NoneVal, "svc"}, oauth : BOOLEAN]

DbtBodies == {<<>>, [data |-> <<>>], [data |-> <<1, 2>>]}

Failures == {"http_status", "transport", "exception"}

DbtReplies ==
    {[kind |-> k] : k \in Failures} \cup {[kind |-> "ok", body |-> b] : b \in DbtBodies}

NppesBodies ==
    {[result_count |-> n, results |-> [i \in 1..n |-> i]] : n \in 0..MaxResults}
    \cup {<<>>, [result_count |-> 1]}

NppesReplies ==
    {[kind |-> k] : k \in Failures} \cup {[kind |-> "ok", body |-> b] : b \in NppesBodies}

Limits == (-2 .. MaxResults + 1) \cup (UpstreamLimitCap - 1 .. UpstreamLimitCap + 1)

InitTools ==
    /\ okta_config = [issuer |-> Iss, audience |-> Aud]
    /\ JWT_VERIFIER_AVAILABLE = TRUE
    /\ jwt_verifier = "verifier"
    /\ public_paths = DefaultPublicPaths
    /\ now = 0
    /\ token_cache = <<>>
    /\ last = [op |-> "start"]
    /\ callers = [c \in Callers |-> Idle]
    /\ role_definitions = ROLE_DEFINITIONS
    /\ snowflake = SnowflakeStart([is_configured |-> FALSE, is_oauth_mode |-> FALSE])

SearchProviders ==
    /\ last.op = "start"
    /\ \E limit \in Limits, upstream \in NppesReplies :
           last' = [op |-> "search_providers", limit |-> limit, upstream |-> upstream,
                    out |-> search_providers(limit, upstream)]
    /\ Unchanged

SearchOrganizations ==
    /\ last.op = "start"
    /\ \E limit \in Limits, upstream \in NppesReplies :
           last' = [op |-> "search_organizations", limit |-> limit, upstream |-> upstream,
                    out |-> search_organizations(limit, upstream)]
    /\ Unchanged

AdvancedSearch ==
    /\ last.op = "start"
    /\ \E limit \in Limits, upstream \in NppesReplies :
           last' = [op |-> "advanced_search", limit |-> limit, upstream |-> upstream,
                    out |-> advanced_search(limit, upstream)]
    /\ Unchanged

LookupNpi ==
    /\ last.op = "start"
    /\ \E upstream \in NppesReplies :
           last' = [op |-> "lookup_npi", upstream |-> upstream,
                    out |-> lookup_npi("1234567890", upstream)]
    /\ Unchanged

MakeNppesRequest ==
    /\ last.op = "start"
    /\ \E upstream \in NppesReplies :
           last' = [op |-> "make_nppes_request", upstream |-> upstream,
                    data |-> make_nppes_request([version |-> "2.1"], upstream)]
    /\ Unchanged

MakeDbtRequest ==
    /\ last.op = "start"
    /\ \E dbt_config \in DbtConfigs, user_token \in {NoneVal, EmptyStr, "user"},
          upstream \in DbtReplies :
           last' = [op |-> "make_dbt_request", dbt_config |-> dbt_config,
                    user_token |-> user_token, upstream |-> upstream,
                    out |-> make_dbt_request(dbt_config, user_token, upstream)]
    /\ Unchanged

DbtTool ==
    /\ last.op = "start"
    /\ \E tool \in DbtTools, dbt_config \in DbtConfigs, upstream \in DbtReplies :
           last' = [op |-> "dbt_tool", tool |-> tool, dbt_config |-> dbt_config,
                    upstream |-> upstream, out |-> dbt_tool(tool, dbt_config, upstream)]
    /\ Unchanged

NextTools ==
    \/ SearchProviders
    \/ SearchOrganizations
    \/ AdvancedSearch
    \/ LookupNpi
    \/ MakeNppesRequest
    \/ MakeDbtRequest
    \/ DbtTool

SpecTools == InitTools /\ [][NextTools]_vars

-----------------------------------------------------------------------------
(* combined_server: the Snowflake tools.  The handlers contain no await, so *)
(* each call runs to its return; db is what the connector meets.            *)

\* get_snowflake_oauth_token()
get_snowflake_oauth_token == snowflake.oauth_token

\* bool(token) of a token string or None
HasToken(token) == token \notin {NoneVal, EmptyStr}

\* get_snowflake_connection(oauth_token): the exception raised, or None, and
\* the token the connection is opened with (None: static credentials)
get_snowflake_connection(oauth_token, db) ==
    IF snowflake.config.is_oauth_mode
    THEN LET token == IF HasToken(oauth_token) THEN oauth_token
                      ELSE get_snowflake_oauth_token IN
         IF ~HasToken(token) THEN [raised |-> "no_token", token |-> NoneVal]
         ELSE IF db = "connect_fails" THEN [raised |-> "connect", token |-> token]
         ELSE [raised |-> NoneVal, token |-> token]
    ELSE IF ~snowflake.config.is_configured
    THEN [raised |-> "not_configured", token |-> NoneVal]
    ELSE IF db = "connect_fails" THEN [raised |-> "connect", token |-> NoneVal]
    ELSE [raised |-> NoneVal, token |-> NoneVal]

\* ctx = None
NoCtx == <<>>

\* extract_oauth_token_from_context(ctx); the Authorization header is the
\* pair of 'Bearer ' and what follows it
extract_oauth_token_from_context(ctx) ==
    IF ctx = NoCtx THEN NoneVal
    ELSE LET auth_header ==
                 IF "request" \in DOMAIN ctx
                 THEN Get(ctx.request.headers, "Authorization", <<>>) ELSE <<>> IN
         IF StartsWith(auth_header, <<Bearer>>)
         THEN IF Len(auth_header) > 1 THEN auth_header[2] ELSE EmptyStr
         ELSE IF "auth_info" \in DOMAIN ctx /\ "token" \in DOMAIN ctx.auth_info
         THEN ctx.auth_info.token
         ELSE NoneVal

\* a variant that leaves the token it found in the thread-local slot
get_snowflake_connection_with_context_slot(ctx, db) ==
    LET token == IF snowflake.config.is_oauth_mode /\ ctx # NoCtx
                 THEN extract_oauth_token_from_context(ctx) ELSE NoneVal IN
    IF HasToken(token)
    THEN [conn |-> get_snowflake_connection(token, db), slot |-> token]
    ELSE [conn |-> get_snowflake_connection(NoneVal, db), slot |-> snowflake.oauth_token]

\* get_snowflake_connection_with_context(ctx): the connection, and the slot
\* after the call
get_snowflake_connection_with_context(ctx, db) ==
    LET token == IF snowflake.config.is_oauth_mode /\ ctx # NoCtx
                 THEN extract_oauth_token_from_context(ctx) ELSE NoneVal IN
    IF HasToken(token)
    THEN [conn |-> get_snowflake_connection(token, db), slot |-> snowflake.oauth_token]
    ELSE [conn |-> get_snowflake_connection(NoneVal, db), slot |-> snowflake.oauth_token]

\* what a handler returned: how its text begins, what it opened and closed,
\* the exception its try block caught, the token it connected with
SnowflakeOutput(text, opened, closed, c) ==
    [text |-> text, opened |-> opened, closed |-> closed,
     raised |-> c.conn.raised, token |-> c.conn.token, slot |-> c.slot]

\* the six handlers; only execute_snowflake_query returns early on no rows
snowflake_tool(tool, ctx, db) ==
    IF ~snowflake.config.is_configured /\ ~snowflake.config.is_oauth_mode
    THEN SnowflakeOutput("Demo", {}, {},
                         [conn |-> [raised |-> NoneVal, token |-> NoneVal],
                          slot |-> snowflake.oauth_token])
    ELSE LET c == get_snowflake_connection_with_context(ctx, db) IN
         IF c.conn.raised # NoneVal THEN SnowflakeOutput("Error ", {}, {}, c)
         ELSE IF db = "cursor_fails" THEN SnowflakeOutput("Error ", {"conn"}, {}, c)
         ELSE IF db \in {"execute_raises", "fetchall_raises"}
         THEN SnowflakeOutput("Error ", {"conn", "cursor"}, {}, c)
         ELSE IF db = "empty" /\ tool = "execute_snowflake_query"
         THEN SnowflakeOutput("Query executed successfully. No rows returned.",
                              {"conn", "cursor"}, {}, c)
         ELSE SnowflakeOutput("Results", {"conn", "cursor"}, {"conn", "cursor"}, c)

SnowflakeTools ==
    {"execute_snowflake_query", "list_snowflake_databases", "list_snowflake_schemas",
     "list_snowflake_tables", "describe_snowflake_table", "list_snowflake_warehouses"}

DbOutcomes ==
    {"connect_fails", "cursor_fails", "execute_raises", "fetchall_raises", "empty", "rows"}

Contexts ==
    {NoCtx,
     [request |-> [headers |-> <<>>]],
     [request |-> [headers |-> [Authorization |-> <<Bearer, "tokenA">>]]],
     [request |-> [headers |-> [Authorization |-> <<Bearer, "tokenB">>]]],
     [request |-> [headers |-> <<>>], auth_info |-> [token |-> "tokenA"]]}

SnowflakeConfigs == [is_configured : BOOLEAN, is_oauth_mode : BOOLEAN]

InitSnowflake ==
    /\ okta_config = [issuer |-> Iss, audience |-> Aud]
    /\ JWT_VERIFIER_AVAILABLE = TRUE
    /\ jwt_verifier = "verifier"
    /\ public_paths = DefaultPublicPaths
    /\ now = 0
    /\ token_cache = <<>>
    /\ last = [op |-> "start"]
    /\ callers = [c \in Callers |-> Idle]
    /\ role_definitions = ROLE_DEFINITIONS
    /\ snowflake \in {SnowflakeStart(config) : config \in SnowflakeConfigs}

SnowflakeCall ==
    \E tool \in SnowflakeTools, ctx \in Contexts, db \in DbOutcomes :
        LET out == snowflake_tool(tool, ctx, db) IN
        /\ last' = [op |-> "snowflake", tool |-> tool, ctx |-> ctx, db |-> db,
                    out |-> out, seen |-> snowflake.tokens_seen]
        /\ snowflake' = [snowflake EXCEPT
                            !.oauth_token = out.slot,
                            !.tokens_seen = IF out.raised = NoneVal /\ out.token # NoneVal
                                            THEN @ \cup {out.token} ELSE @]
        /\ UNCHANGED <<okta_config, JWT_VERIFIER_AVAILABLE, jwt_verifier, public_paths,
                       now, token_cache, callers, role_definitions>>

NextSnowflake == SnowflakeCall

SpecSnowflake == InitSnowflake /\ [][NextSnowflake]_vars

-----------------------------------------------------------------------------
(* Properties *)

AuthConfigured == Truthy(okta_config.issuer) /\ Truthy(okta_config.audience)
ServerAuthConfigured == AuthConfigured /\ JWT_VERIFIER_AVAILABLE /\ jwt_verifier # NoneVal

\* at time t the token passes every check of the validator except, possibly,
\* those in skip
ValidExcept(tok, skip, t) ==
    /\ WellFormed(tok)
    /\ KidOf(tok) \in KnownKids
    /\ ("sig" \in skip \/ SigOk(tok))
    /\ RequiredClaims \subseteq DOMAIN PayloadOf(tok)
    /\ PayloadOf(tok).iat <= t
    /\ ("exp" \in skip \/ PayloadOf(tok).exp > t)
    /\ PayloadOf(tok).iss = okta_config.issuer
    /\ ("aud" \in skip \/ PayloadOf(tok).aud = okta_config.audience)

\* C1: with authentication configured and the keyset available, validating a
\* token whose signature does not verify fails with the bad-signature error,
\* whatever earlier calls left in token_cache.
C1_BadSignatureRejected ==
    (/\ last.op = "validate"
     /\ AuthConfigured
     /\ last.jwks_up
     /\ ValidExcept(last.token, {"sig"}, last.at)
     /\ ~SigOk(last.token))
    => last.result = Err("signature")

\* C2: validating a token whose exp is earlier than the clock at the call fails with the
\* expired error (stated here for tokens that are otherwise valid, signature
\* included) and never returns claims.
C2_ExpiredRejected ==
    (/\ last.op = "validate"
     /\ AuthConfigured
     /\ last.jwks_up
     /\ ValidExcept(last.token, {"exp"}, last.at)
     /\ PayloadOf(last.token).exp < last.at)
    => last.result = Err("expired")

\* C3: every entry of token_cache is evicted no later than the exp of the
\* claims it holds: the lifetime it got at insertion is at most exp - now.
C3_EntryNeverOutlivesExp ==
    \A k \in DOMAIN token_cache : token_cache[k].expires <= token_cache[k].value.exp

\* C4: validating a token whose audience is not the configured audience fails
\* with the audience-mismatch error even when the token is otherwise valid,
\* whatever earlier calls left in token_cache.
C4_WrongAudienceRejected ==
    (/\ last.op = "validate"
     /\ AuthConfigured
     /\ last.jwks_up
     /\ ValidExcept(last.token, {"aud"}, last.at)
     /\ PayloadOf(last.token).aud # okta_config.audience)
    => last.result = Err("audience")

\* a path that is none of root, /health, /metrics, /.well-known nor below them
OtherPath(path) ==
    /\ path # P_root
    /\ ~StartsWith(path, P_health)
    /\ ~StartsWith(path, P_metrics)
    /\ ~StartsWith(path, P_wellknown)

\* C5: with authentication configured and the default public paths, a request
\* to any other path without a Bearer Authorization header is answered 401
\* with WWW-Authenticate: Bearer, and the handler is not called.
C5_NoHeaderUnauthorized ==
    (/\ last.op = "dispatch"
     /\ AuthConfigured
     /\ public_paths = DefaultPublicPaths
     /\ OtherPath(last.request.path)
     /\ ~StartsWith(Get(last.request.headers, "Authorization", <<>>), <<Bearer>>))
    => (/\ last.status = 401
        /\ last.www = <<"Bearer">>
        /\ "call_next" \notin Range(last.calls))

\* C6: with authentication configured, the handler of a tool that has an
\* allowed-role set runs only after that tool's check_access was evaluated
\* for the call.
C6_HandlerOnlyAfterPermit ==
    (/\ last.op = "dispatch"
     /\ ServerAuthConfigured
     /\ last.request.tool \in DOMAIN canAccess
     /\ "call_next" \in Range(last.calls))
    => \E i, j \in 1..Len(last.calls) :
           i < j /\ last.calls[i] = "check_access" /\ last.calls[j] = "call_next"

\* C7: with authentication configured, a call with a valid token whose groups
\* hold no role allowed for the target tool is answered 403.
C7_InsufficientRoleForbidden ==
    (/\ last.op = "dispatch"
     /\ ServerAuthConfigured
     /\ last.result.ok
     /\ last.request.tool \in DOMAIN canAccess
     /\ "mcp_admin" \notin Range(Get(last.result.claims, "groups", <<>>))
     /\ Range(Get(last.result.claims, "groups", <<>>))
            \cap Range(canAccess[last.request.tool]) = {})
    => last.status = 403

RoleCallConfigured ==
    \/ last.op = "require_role" /\ AuthConfigured
    \/ last.op = "cs_require_role" /\ ServerAuthConfigured

LastGroups == Get(last.auth_context, "groups", <<>>)

\* C8: with authentication configured and no mcp_admin among the groups,
\* check_access permits exactly when the groups and the allowed roles share a
\* role (no groups field counts as no groups); {mcp_viewer} is permitted for
\* viewer/analyst/clinician/admin tools and denied for analyst/admin tools.
C8_PermitIffIntersection ==
    (RoleCallConfigured /\ "mcp_admin" \notin Range(LastGroups))
    => /\ last.result <=> (Range(LastGroups) \cap Range(last.allowed_roles) # {})
       /\ (LastGroups = <<"mcp_viewer">> /\ last.allowed_roles = ViewerUp) => last.result
       /\ (LastGroups = <<"mcp_viewer">> /\ last.allowed_roles = AnalystUp) => ~last.result

C8_Witness ==
    /\ last.op = "cs_require_role"
    /\ ServerAuthConfigured
    /\ last.auth_context = [sub |-> "u1", groups |-> <<"mcp_viewer">>]
    /\ last.allowed_roles = AnalystUp
    /\ last.result = FALSE

\* C9: a caller whose groups include mcp_admin is permitted by check_access
\* for every allowed-role set and by can_access_tool for every tool name.
C9_AdminAlwaysPermitted ==
    /\ (last.op \in {"require_role", "cs_require_role"}
        /\ "mcp_admin" \in Range(LastGroups)) => last.result
    /\ (last.op = "can_access_tool" /\ "mcp_admin" \in Range(last.groups)) => last.result

C9_Witness ==
    /\ last.op = "require_role"
    /\ AuthConfigured
    /\ last.allowed_roles = <<"mcp_viewer">>
    /\ LastGroups = <<"other_group", "mcp_admin">>
    /\ last.result

\* C10: when issuer or audience is unset, require_role, require_scope and
\* can_access_tool permit every context, required set and tool.
C10_UnconfiguredPermitsAll ==
    (~AuthConfigured
     /\ last.op \in {"require_role", "cs_require_role", "require_scope", "can_access_tool"})
    => last.result

C10_Witness ==
    /\ last.op = "require_scope"
    /\ okta_config.issuer = Iss
    /\ okta_config.audience = NoneVal
    /\ last.auth_context = <<>>
    /\ last.required_scopes = <<"npi:read", "dbt:run">>
    /\ last.result

-----------------------------------------------------------------------------
(* Logging, the key fetch, the cache and the request context *)

\* the request path is below none of the configured public paths
Protected(path) ==
    \A i \in 1..Len(public_paths) : ~StartsWith(path, public_paths[i])

\* log lines at warning level or above
WarningOrAbove ==
    {"logger.warning", "logger.error", "logger.exception",
     "security.warning", "security.error", "security.exception"}

\* C11: when authentication is not configured, a call to a protected path is
\* dispatched with the synthesized identity whose groups are exactly
\* [mcp_admin] and authenticated = False, and the call logs exactly one line
\* at warning level or above.
C11_DevModeLoggedAsWarning ==
    (/\ last.op = "dispatch"
     /\ ~AuthConfigured
     /\ Protected(last.request.path))
    => (/\ "call_next" \in Range(last.calls)
        /\ last.state.user.groups = <<"mcp_admin">>
        /\ last.state.authenticated = FALSE
        /\ Cardinality({i \in 1..Len(last.logs) : last.logs[i] \in WarningOrAbove}) = 1)

\* C12: when the key fetch fails during a validation that missed the token
\* cache, the gateway answers with a 5xx status and not with 401.
C12_KeyFetchFailureIsServerError ==
    (/\ last.op = "dispatch"
     /\ AuthConfigured
     /\ last.fetched
     /\ ~last.jwks_up)
    => last.status \in 500..599

\* C13: every denial (no Bearer header, a rejected token, an insufficient
\* role) writes exactly one log line.
C13_OneLogLinePerDenial ==
    (/\ last.op = "dispatch"
     /\ AuthConfigured
     /\ last.status \in {401, 403})
    => Len(last.logs) = 1

\* C14: when a token was validated successfully and its cache entry is still
\* live, validating the same token again returns the same claims, fetches no
\* keys, verifies nothing and leaves token_cache as it was.
C14_SecondValidationFromCache ==
    [][(/\ last.op = "validate"
        /\ last.result.ok
        /\ now' = now
        /\ last'.op = "validate"
        /\ last'.token = last.token
        /\ LET cache_key == Take(last.token, FingerprintLen) IN
               /\ cache_key \in DOMAIN token_cache
               /\ now < token_cache[cache_key].expires)
       => (/\ last'.result = last.result
           /\ ~last'.fetched
           /\ last'.logs = <<"logger.debug">>
           /\ token_cache' = token_cache)]_vars

C14_Witness ==
    /\ last.op = "validate"
    /\ last.token = MakeToken("a", "viewer", "good")
    /\ last.at = TickStep
    /\ last.hit
    /\ ~last.fetched
    /\ last.result = Ok(Payloads["viewer"])
    /\ token_cache[Header("a")].expires = CacheTTL

\* C15: two validations that both miss the token cache and follow one another
\* within the lifespan of the keyset fetch the keys at most once.
C15_OneKeyFetchPerLifespan ==
    [][(/\ last.op = "validate"
        /\ last.fetched
        /\ last.jwks_up
        /\ KidOf(last.token) \in KnownKids
        /\ last.at = now
        /\ now' = now
        /\ last'.op = "validate"
        /\ last' # last
        /\ KidOf(last'.token) \in KnownKids)
       => ~last'.fetched]_vars

\* C16: token_cache changes only in the store of a call whose validation
\* succeeded and whose exp - now is positive at the store, and then the entry
\* under the token's key holds the returned claims; a call that fails, or whose
\* ttl is not positive, leaves token_cache as it was.
C16_CacheWrittenOnlyOnSuccess ==
    [][(token_cache' # token_cache)
       => \E c \in Callers :
              /\ callers[c].pc = "store"
              /\ callers'[c].pc = "done"
              /\ callers'[c].result.ok
              /\ callers'[c].result.claims.exp - now > 0
              /\ LET cache_key == Take(callers[c].token, FingerprintLen) IN
                     /\ cache_key \in DOMAIN token_cache'
                     /\ token_cache'[cache_key].value = callers'[c].result.claims
                     /\ \A k \in DOMAIN token_cache' \ {cache_key} :
                            k \in DOMAIN token_cache /\ token_cache'[k] = token_cache[k]]_vars

C16_Witness ==
    \E c \in Callers :
        /\ callers[c].pc = "done"
        /\ callers[c].token = MakeToken("a", "short", "good")
        /\ callers[c].result = Ok(Payloads["short"])
        /\ ~callers[c].hit
        /\ callers[c].at = TickStep
        /\ now = TickStep
        /\ token_cache = <<>>

C18_ContextFromValidatedClaims ==
    (/\ last.op = "dispatch"
     /\ Get(last.state, "authenticated", FALSE))
    => LET claims == last.result.claims
           ctx == get_auth_context_from_request(last.state) IN
       /\ last.result.ok
       /\ AuthConfigured
       /\ StartsWith(Get(last.request.headers, "Authorization", <<>>), <<Bearer>>)
       /\ last.calls = <<"validate_okta_token", "get_user_permissions",
                         "call_next", last.request.tool>>
       /\ last.state.user_id = claims.sub
       /\ ctx.sub = claims.sub
       /\ ctx.email = (IF "email" \in DOMAIN claims THEN claims.email ELSE EmptyStr)
       /\ ctx.groups = (IF "groups" \in DOMAIN claims THEN claims.groups ELSE <<>>)
       /\ ctx.scp = (IF "scp" \in DOMAIN claims THEN claims.scp ELSE <<>>)
       /\ last.state.permissions = get_user_permissions(ctx.groups)
       /\ ctx.authenticated

C18_Witness ==
    /\ last.op = "dispatch"
    /\ Get(last.request.headers, "Authorization", <<>>)
           = <<Bearer>> \o MakeToken("a", "analyst", "good")
    /\ Get(last.state, "authenticated", FALSE)
    /\ last.state.user_id = "u2"
    /\ last.state.email = "u2@example.org"
    /\ last.state.groups = <<"mcp_analyst">>
    /\ last.state.scopes = <<"npi:read">>
    /\ "call_next" \in Range(last.calls)

\* C19: a request to a public path without an Authorization header goes to
\* the handler without a call of the validator; token_cache is left as it
\* was, and no user, groups, scopes or authenticated flag is set.
C19_PublicPathPassesThrough ==
    [][(/\ now' = now
        /\ last'.op = "dispatch"
        /\ ~Protected(last'.request.path)
        /\ "Authorization" \notin DOMAIN last'.request.headers)
       => (/\ token_cache' = token_cache
           /\ last'.status = 200
           /\ last'.calls = <<"call_next", last'.request.tool>>
           /\ last'.state = NoState
           /\ get_auth_context_from_request(last'.state).authenticated = FALSE
           /\ last'.logs = <<>>
           /\ ~last'.fetched)]_vars

C19_Witness ==
    /\ last.op = "dispatch"
    /\ AuthConfigured
    /\ public_paths = <<P_health>>
    /\ last.request.path = P_healthz
    /\ "Authorization" \notin DOMAIN last.request.headers
    /\ last.status = 200
    /\ token_cache # <<>>

\* C20: every 401 carries a WWW-Authenticate header that begins with Bearer
\* and the handler is not called; without a Bearer header the value is
\* exactly Bearer, and for a rejected token it is Bearer
\* error="invalid_token" with the reason of the rejection as description.
C20_ChallengeOnEvery401 ==
    (/\ last.op = "dispatch"
     /\ last.status = 401)
    => (/\ Len(last.www) >= 1
        /\ last.www[1] = "Bearer"
        /\ "call_next" \notin Range(last.calls)
        /\ IF StartsWith(Get(last.request.headers, "Authorization", <<>>), <<Bearer>>)
           THEN /\ ~last.result.ok
                /\ last.www = <<"Bearer", "invalid_token", last.result.err>>
           ELSE last.www = <<"Bearer">>)

C20_Witness ==
    /\ last.op = "dispatch"
    /\ last.status = 401
    /\ last.result = Err("signature")
    /\ last.www = <<"Bearer", "invalid_token", "signature">>

-----------------------------------------------------------------------------
(* The registry, the validator's errors, and the tool handlers *)

\* C21: with authentication configured, for every tool that has an
\* allowed-role set and every group list, the registry's decision (the tool is
\* among get_user_permissions(groups), or '*' is) equals the decision of the
\* tool's check_access on a context with those groups.
C21_RegistryAgreesWithAllowedRoles ==
    (last.op = "tool_access" /\ ServerAuthConfigured)
    => ((last.tool \in last.permissions \/ "*" \in last.permissions) <=> last.result)

C21_Witness ==
    /\ last.op = "tool_access"
    /\ ServerAuthConfigured
    /\ last.tool = "trigger_dbt_job"
    /\ last.groups = <<"mcp_clinician", "mcp_analyst">>
    /\ "trigger_dbt_job" \in last.permissions
    /\ last.result

Fails(tok, check, t) ==
    LET claims == PayloadOf(tok) IN
    CASE check = "sig" -> ~SigOk(tok)
      [] check = "iat" -> claims.iat > t
      [] check = "exp" -> claims.exp <= t
      [] check = "iss" -> claims.iss # okta_config.issuer
      [] check = "aud" -> claims.aud # okta_config.audience

\* the token has every required claim and fails the named check and no other
FailsOnly(tok, check, t) ==
    /\ WellFormed(tok)
    /\ KidOf(tok) \in KnownKids
    /\ RequiredClaims \subseteq DOMAIN PayloadOf(tok)
    /\ {k \in {"sig", "iat", "exp", "iss", "aud"} : Fails(tok, k, t)} = {check}

\* C23: on a cache miss every failure of a validation is one of five
\* categories (expired, audience, issuer, signature, generic); a token that
\* fails one check only is reported in the category of that check, and a
\* token with a required claim missing is reported as generic.
C23_FailureCategories ==
    (/\ last.op = "validate"
     /\ AuthConfigured
     /\ ~last.hit
     /\ ~last.result.ok)
    => (/\ last.result.err \in {"expired", "audience", "issuer", "signature", "generic"}
        /\ last.jwks_up =>
             /\ FailsOnly(last.token, "exp", last.at) => last.result.err = "expired"
             /\ FailsOnly(last.token, "aud", last.at) => last.result.err = "audience"
             /\ FailsOnly(last.token, "iss", last.at) => last.result.err = "issuer"
             /\ FailsOnly(last.token, "sig", last.at) => last.result.err = "signature"
             /\ (/\ WellFormed(last.token)
                 /\ KidOf(last.token) \in KnownKids
                 /\ SigOk(last.token)
                 /\ ~(RequiredClaims \subseteq DOMAIN PayloadOf(last.token)))
                => last.result.err = "generic")

C23_Witness ==
    /\ last.op = "validate"
    /\ AuthConfigured
    /\ ~last.hit
    /\ last.token = MakeToken("a", "wrongiss", "good")
    /\ last.result = Err("issuer")

SearchOps == {"search_providers", "search_organizations", "advanced_search"}

\* C24: for every integer limit the three searches ask the NPPES API for
\* min(limit, 200) results, never more than 200, and the output lists at most
\* limit result entries.
C24_LimitClamped ==
    (last.op \in SearchOps)
    => (/\ \A i \in 1..Len(last.out.requests) :
               /\ last.out.requests[i].limit = Min(last.limit, UpstreamLimitCap)
               /\ last.out.requests[i].limit <= UpstreamLimitCap
        /\ Len(last.out.entries) <= last.limit)

C26_ClaimsBelongToToken ==
    (/\ last.op = "validate"
     /\ AuthConfigured
     /\ last.result.ok)
    => last.result.claims = PayloadOf(last.token)

\* C27: when authentication is not configured, validate_okta_token fails
\* with the not-configured error for every token, fetches no keys, writes no
\* log line of the validator and leaves token_cache empty as it found it.
C27_UnconfiguredValidationFails ==
    (last.op = "validate" /\ ~AuthConfigured)
    => (/\ last.result = Err("not_configured")
        /\ ~last.fetched
        /\ ~last.hit
        /\ last.logs = <<>>
        /\ token_cache = <<>>)

C27_Witness ==
    /\ last.op = "validate"
    /\ okta_config = [issuer |-> Iss, audience |-> NoneVal]
    /\ last.token = MakeToken("a", "viewer", "good")
    /\ last.at = TickStep
    /\ last.result = Err("not_configured")

\* C28: every connection and cursor a Snowflake handler opened is closed when
\* the handler returns, on the normal path, on an empty result and when
\* execute or fetchall raises.
C28_ConnectionsClosed ==
    (last.op = "snowflake") => last.out.opened \subseteq last.out.closed

\* the bearer token the context of a call carries: None when it has none
CtxToken(ctx) ==
    IF "request" \in DOMAIN ctx /\ "Authorization" \in DOMAIN ctx.request.headers
    THEN ctx.request.headers.Authorization[2]
    ELSE IF "auth_info" \in DOMAIN ctx THEN ctx.auth_info.token
    ELSE NoneVal

DbtCanRequest(dbt_config) ==
    dbt_config.account_id = "acct" /\ dbt_config.service_token = "svc"

\* C30: when the NPPES or dbt Cloud request fails, make_nppes_request and
\* make_dbt_request return a dictionary with an error key and the tool
\* returns a text beginning 'Error: ' with no result formatted;
\* make_dbt_request makes no request when dbt Cloud is not configured or no
\* token is available.
C30_UpstreamFailureIsValue ==
    /\ (last.op = "make_nppes_request" /\ last.upstream.kind # "ok")
       => "error" \in DOMAIN last.data
    /\ (last.op \in SearchOps \cup {"lookup_npi"} /\ last.upstream.kind # "ok")
       => (last.out.text = "Error: " /\ last.out.entries = <<>>)
    /\ (last.op = "dbt_tool" /\ DbtCanRequest(last.dbt_config)
        /\ last.upstream.kind # "ok")
       => (last.out.text = "Error: " /\ last.out.entries = <<>>)
    /\ (last.op = "make_dbt_request" /\ last.upstream.kind # "ok")
       => "error" \in DOMAIN last.out.data
    /\ (/\ last.op = "make_dbt_request"
        /\ \/ last.dbt_config.account_id = NoneVal
           \/ (last.dbt_config.service_token = NoneVal /\ ~last.dbt_config.oauth)
           \/ (last.dbt_config.service_token = NoneVal /\ last.user_token # "user"))
       => (last.out.requests = <<>> /\ "error" \in DOMAIN last.out.data)

C30_Witness ==
    /\ last.op = "search_providers"
    /\ last.upstream.kind = "http_status"
    /\ last.limit = 1
    /\ last.out.text = "Error: "

====
